---- MODULE Spec2Model ----
(***************************************************************************)
(* cjdns-admin, func_args.rs: the argument list of a remote function call. *)
(*                                                                         *)
(* ArgValue is a three-variant enum, ArgValues a BTreeMap from argument    *)
(* name to ArgValue with add (insert-or-replace) and a serde Serialize     *)
(* implementation that walks the map and drives a downstream Serializer.   *)
(*                                                                         *)
(* Representation.  Text is a sequence of one-character strings.  A tagged *)
(* value is a pair <<tag, payload>>.  The BTreeMap is the sequence of its  *)
(* <<key, value>> entries in iteration order.  The downstream Serializer   *)
(* is a recording one: it logs every call made on it and fails the calls   *)
(* whose index is in a failure plan.                                       *)
(***************************************************************************)
EXTENDS Integers, Sequences, FiniteSets, TLC

VARIABLES
    map,    \* the ArgValues under construction: its BTreeMap's entries
    op,     \* the last operation performed: "new", "add" or "serialize"
    arg,    \* op = "add": <<name, raw value>> as passed by the caller
    plan,   \* op = "serialize": indices of downstream calls that fail
    calls,  \* op = "serialize": the calls made on the downstream serializer
    ret,    \* op = "serialize": the value serialize returned
    added,  \* the names passed to add so far
    hist    \* the add calls so far, <<name, raw value>> each (SpecLogged only)

vars == <<map, op, arg, plan, calls, ret, added, hist>>

(***************************************************************************)
(* Text                                                                    *)
(***************************************************************************)
boo == <<"b","o","o">>
fo == <<"f","o">>
foo == <<"f","o","o">>
zoo == <<"z","o","o">>
bar == <<"b","a","r">>
baz == <<"b","a","z">>
foobar == <<"f","o","o","b","a","r">>

\* The byte (UTF-8 code unit) of each character that occurs in a name.
Code == ("b" :> 98) @@ ("f" :> 102) @@ ("o" :> 111) @@ ("z" :> 122)

\* String's Ord: byte-wise lexicographic, a proper prefix first.
RECURSIVE StrLessByLen(_, _)
StrLessByLen(a, b) ==
    IF Len(a) # Len(b) THEN Len(a) < Len(b)
    ELSE IF a = <<>> THEN FALSE
    ELSE IF Code[Head(a)] # Code[Head(b)] THEN Code[Head(a)] < Code[Head(b)]
    ELSE StrLessByLen(Tail(a), Tail(b))

RECURSIVE StrLess(_, _)
StrLess(a, b) ==
    IF a = <<>> THEN b # <<>>
    ELSE IF b = <<>> THEN FALSE
    ELSE IF Code[Head(a)] # Code[Head(b)] THEN Code[Head(a)] < Code[Head(b)]
    ELSE StrLess(Tail(a), Tail(b))

(***************************************************************************)
(* ArgValue and the lifts into it                                          *)
(***************************************************************************)
ArgValue_Int(n) == <<"Int", n>>
ArgValue_String(s) == <<"String", s>>
ArgValue_Json(j) == <<"Json", j>>

Tag(v) == v[1]
Payload(v) == v[2]

\* A &str is a view of bytes lo+1..hi of a buffer; to_string copies them.
to_string(slice) == SubSeq(slice[1], slice[2] + 1, slice[3])

From_i64(value) == ArgValue_Int(value)
From_String(value) == ArgValue_String(value)

From_str_whole(value) == ArgValue_String(value[1])

From_str(value) == ArgValue_String(to_string(value))
From_JsonValue(value) == ArgValue_Json(value)

\* V: Into<ArgValue>, resolved by the static type of the argument.
Into(raw) ==
    CASE Tag(raw) = "i64" -> From_i64(Payload(raw))
      [] Tag(raw) = "String" -> From_String(Payload(raw))
      [] Tag(raw) = "&str" -> From_str(Payload(raw))
      [] Tag(raw) = "JsonValue" -> From_JsonValue(Payload(raw))
      [] Tag(raw) = "ArgValue" -> Payload(raw)

(***************************************************************************)
(* JSON values, as serde_json::Value iterates them                         *)
(***************************************************************************)
JInt(n) == <<"int", n>>
JStr(s) == <<"str", s>>
JArr(elems) == <<"arr", elems>>
JObj(members) == <<"obj", members>>

\* json!([42, -42, "bar"])
JsonList == JArr(<<JInt(42), JInt(-42), JStr(bar)>>)

\* json!({"key1": "baz", "key2": ["Lorem", "ipsum", {"dolor": ["sit", "amet"]}]})
JsonDict ==
    JObj(<< << <<"k","e","y","1">>, JStr(baz) >>,
            << <<"k","e","y","2">>,
               JArr(<< JStr(<<"L","o","r","e","m">>),
                       JStr(<<"i","p","s","u","m">>),
                       JObj(<< << <<"d","o","l","o","r">>,
                                  JArr(<< JStr(<<"s","i","t">>),
                                          JStr(<<"a","m","e","t">>) >>) >> >>) >>) >> >>)

(***************************************************************************)
(* Inputs                                                                  *)
(***************************************************************************)
\* The names of the tests, and with them one that is a proper prefix.
Names == {boo, foo, zoo}
LoggedNames == {boo, fo, foo, zoo}

RawInputs ==
    { <<"i64", 42>>, <<"i64", -42>>,
      <<"String", bar>>,
      <<"&str", <<foobar, 3, 6>>>>,
      <<"JsonValue", JsonList>>, <<"JsonValue", JsonDict>>,
      <<"ArgValue", ArgValue_Int(42)>> }

(***************************************************************************)
(* ArgValues: BTreeMap<ArgName, ArgValue>                                  *)
(***************************************************************************)
new == <<>>

Key(entry) == entry[1]
Value(entry) == entry[2]

\* The search of BTreeMap::insert: the first entry whose key is not less
\* than k, Len(m) + 1 when there is none.
LowerBound(m, k) ==
    LET notLess == {i \in 1..Len(m) : ~StrLess(Key(m[i]), k)}
    IN  IF notLess = {} THEN Len(m) + 1
        ELSE CHOOSE i \in notLess : \A j \in notLess : i <= j

\* Mutants of Insert.
InsertAppend(m, k, v) ==
    LET same == {i \in 1..Len(m) : Key(m[i]) = k}
    IN  IF same # {} THEN [m EXCEPT ![CHOOSE i \in same : TRUE] = <<k, v>>]
        ELSE Append(m, <<k, v>>)

InsertKeepFirst(m, k, v) ==
    LET pos == LowerBound(m, k)
    IN  IF pos <= Len(m) /\ Key(m[pos]) = k THEN m
        ELSE SubSeq(m, 1, pos - 1) \o << <<k, v>> >> \o SubSeq(m, pos, Len(m))

InsertOverNext(m, k, v) ==
    LET pos == LowerBound(m, k)
    IN  IF pos <= Len(m) THEN [m EXCEPT ![pos] = <<k, v>>]
        ELSE Append(m, <<k, v>>)

\* BTreeMap::insert: replace the value of an equal key, else insert the
\* entry at its place in key order.
Insert(m, k, v) ==
    LET pos == LowerBound(m, k)
    IN  IF pos <= Len(m) /\ Key(m[pos]) = k THEN [m EXCEPT ![pos] = <<k, v>>]
        ELSE SubSeq(m, 1, pos - 1) \o << <<k, v>> >> \o SubSeq(m, pos, Len(m))

\* ArgValues::add
add(self, name, value) == Insert(self, name, Into(value))

(***************************************************************************)
(* The downstream serializer                                               *)
(*                                                                         *)
(* Calls are numbered in the order serialize makes them: 0 is              *)
(* serialize_map, i in 1..n is serialize_entry of the i-th entry, n + 1 is *)
(* end.  A call whose number is in the failure plan returns SinkError of   *)
(* its number, which tells the errors of different calls apart.            *)
(***************************************************************************)
SinkError(i) == <<"SinkError", i>>

Ok(x) == <<"Ok", x>>
Err(e) == <<"Err", e>>

Digit == <<"0","1","2","3","4","5","6","7","8","9">>

RECURSIVE Utoa(_)
Utoa(n) == IF n < 10 THEN <<Digit[n + 1]>> ELSE Utoa(n \div 10) \o <<Digit[(n % 10) + 1]>>

Itoa(n) == IF n < 0 THEN <<"-">> \o Utoa(-n) ELSE Utoa(n)

\* The wire format: i<decimal>e, <length>:<bytes>, l...e, d...e.
BInt(n) == <<"i">> \o Itoa(n) \o <<"e">>
BStr(s) == Itoa(Len(s)) \o <<":">> \o s

RECURSIVE BJson(_)
RECURSIVE BJsonElems(_)
RECURSIVE BJsonMembers(_)
BJson(j) ==
    CASE Tag(j) = "int" -> BInt(Payload(j))
      [] Tag(j) = "str" -> BStr(Payload(j))
      [] Tag(j) = "arr" -> <<"l">> \o BJsonElems(Payload(j)) \o <<"e">>
      [] Tag(j) = "obj" -> <<"d">> \o BJsonMembers(Payload(j)) \o <<"e">>

BJsonElems(elems) ==
    IF elems = <<>> THEN <<>> ELSE BJson(Head(elems)) \o BJsonElems(Tail(elems))

BJsonMembers(members) ==
    IF members = <<>> THEN <<>>
    ELSE BStr(Head(members)[1]) \o BJson(Head(members)[2]) \o BJsonMembers(Tail(members))

\* What the encoder writes for the value handed to serialize_entry.
BValue(x) ==
    CASE Tag(x) = "i64" -> BInt(Payload(x))
      [] Tag(x) = "str" -> BStr(Payload(x))
      [] Tag(x) = "json" -> BJson(Payload(x))

BCall(c) ==
    CASE c[1] = "serialize_map" -> <<"d">>
      [] c[1] = "serialize_entry" -> BStr(c[2]) \o BValue(c[3])
      [] c[1] = "end" -> <<"e">>

\* The bytes in the sink after the calls cs, all of them successful.
RECURSIVE EncoderOutput(_)
EncoderOutput(cs) ==
    IF cs = <<>> THEN <<>> ELSE BCall(Head(cs)) \o EncoderOutput(Tail(cs))

(***************************************************************************)
(* <ArgValues as Serialize>::serialize                                     *)
(***************************************************************************)
RECURSIVE ReverseJson(_)
ReverseJson(j) ==
    IF Tag(j) \in {"arr", "obj"}
    THEN LET p == Payload(j)
         IN  <<Tag(j), [i \in 1..Len(p) |->
                          LET e == p[Len(p) + 1 - i]
                          IN  IF Tag(j) = "arr" THEN ReverseJson(e)
                              ELSE <<e[1], ReverseJson(e[2])>>]>>
    ELSE j

\* Mutants of EntryValue.
EntryValueIntAsStr(v) ==
    CASE Tag(v) = "Int" -> <<"str", Itoa(Payload(v))>>
      [] Tag(v) = "String" -> <<"str", Payload(v)>>
      [] Tag(v) = "Json" -> <<"json", Payload(v)>>

EntryValueJsonReordered(v) ==
    CASE Tag(v) = "Int" -> <<"i64", Payload(v)>>
      [] Tag(v) = "String" -> <<"str", Payload(v)>>
      [] Tag(v) = "Json" -> <<"json", ReverseJson(Payload(v))>>

\* The match on the variant: what is handed to serialize_entry as the value.
EntryValue(v) ==
    CASE Tag(v) = "Int" -> <<"i64", Payload(v)>>
      [] Tag(v) = "String" -> <<"str", Payload(v)>>
      [] Tag(v) = "Json" -> <<"json", Payload(v)>>

EntryCall(entry) == <<"serialize_entry", Key(entry), EntryValue(Value(entry))>>

\* encoder.end(): the last call, whose result is serialize's.
EncoderEnd(m, fails, cs) ==
    LET i == Len(m) + 1
        c == Append(cs, <<"end">>)
    IN  [calls |-> c,
         ret |-> IF i \in fails THEN Err(SinkError(i)) ELSE Ok(EncoderOutput(c))]

\* Mutants of EntryLoop: a failed entry is skipped; a failed entry is
\* remembered and returned after the remaining calls are made.
RECURSIVE EntryLoopIgnoreErr(_, _, _, _)
EntryLoopIgnoreErr(m, i, fails, cs) ==
    IF i > Len(m) THEN EncoderEnd(m, fails, cs)
    ELSE EntryLoopIgnoreErr(m, i + 1, fails,
                            IF i \in fails THEN cs ELSE Append(cs, EntryCall(m[i])))

RECURSIVE EntryLoopLateErr(_, _, _, _)
EntryLoopLateErr(m, i, fails, cs) ==
    IF i > Len(m) THEN EncoderEnd(m, fails, cs)
    ELSE LET rest == EntryLoopLateErr(m, i + 1, fails, Append(cs, EntryCall(m[i])))
         IN  IF i \in fails THEN [calls |-> rest.calls, ret |-> Err(SinkError(i))]
             ELSE rest

\* for (k, v) in map { ... encoder.serialize_entry(k, _)? } encoder.end()
RECURSIVE EntryLoop(_, _, _, _)
EntryLoop(m, i, fails, cs) ==
    IF i > Len(m) THEN EncoderEnd(m, fails, cs)
    ELSE LET c == Append(cs, EntryCall(m[i]))
         IN  IF i \in fails THEN [calls |-> c, ret |-> Err(SinkError(i))]
             ELSE EntryLoop(m, i + 1, fails, c)

\* Mutant of serialize: the map is taken out of self and consumed.
serialize_take(self, fails) ==
    LET c0 == << <<"serialize_map", Len(self)>> >>
        r == IF 0 \in fails THEN [calls |-> c0, ret |-> Err(SinkError(0))]
             ELSE EntryLoop(self, 1, fails, c0)
    IN  [self |-> <<>>, calls |-> r.calls, ret |-> r.ret]

\* serialize(&self, serializer): self as it is left, the calls made on the
\* serializer and the value returned.
serialize(self, fails) ==
    LET c0 == << <<"serialize_map", Len(self)>> >>
        r == IF 0 \in fails THEN [calls |-> c0, ret |-> Err(SinkError(0))]
             ELSE EntryLoop(self, 1, fails, c0)
    IN  [self |-> self, calls |-> r.calls, ret |-> r.ret]

(***************************************************************************)
(* The program: a caller that builds one ArgValues and serializes it       *)
(***************************************************************************)
None == <<"None">>

Init ==
    /\ map = new
    /\ op = "new"
    /\ arg = None
    /\ plan = {}
    /\ calls = <<>>
    /\ ret = None
    /\ added = {}
    /\ hist = <<>>

AddCall(name, raw) ==
    /\ map' = add(map, name, raw)
    /\ op' = "add"
    /\ arg' = <<name, raw>>
    /\ plan' = {}
    /\ calls' = <<>>
    /\ ret' = None
    /\ added' = added \cup {name}

Add ==
    \E name \in Names, raw \in RawInputs :
        /\ AddCall(name, raw)
        /\ UNCHANGED hist

\* At most MaxFails of the calls are planned to fail.
MaxFails == 2

FailPlans(n) == {f \in SUBSET (0..(n + 1)) : Cardinality(f) <= MaxFails}

Serialize ==
    \E fails \in FailPlans(Len(map)) :
        LET r == serialize(map, fails)
        IN  /\ map' = r.self
            /\ op' = "serialize"
            /\ arg' = None
            /\ plan' = fails
            /\ calls' = r.calls
            /\ ret' = r.ret
            /\ UNCHANGED <<added, hist>>

Next == Add \/ Serialize

Spec == Init /\ [][Next]_vars

\* The same caller with its add calls logged, MaxAdds of them at most.
MaxAdds == 4

LoggedInputs == { <<"i64", 42>>, <<"String", bar>> }

AddLogged ==
    \E name \in LoggedNames, raw \in LoggedInputs :
        /\ Len(hist) < MaxAdds
        /\ AddCall(name, raw)
        /\ hist' = Append(hist, <<name, raw>>)

NextLogged == AddLogged

SpecLogged == Init /\ [][NextLogged]_vars

(***************************************************************************)
(* Properties                                                              *)
(***************************************************************************)
Absent == <<"Absent">>

\* The value stored under name n, Absent when there is none.
Get(m, n) ==
    LET at == {i \in 1..Len(m) : Key(m[i]) = n}
    IN  IF at = {} THEN Absent ELSE Value(m[CHOOSE i \in at : TRUE])

KeySet(m) == {Key(m[i]) : i \in 1..Len(m)}

Min(S) == CHOOSE x \in S : \A y \in S : x <= y

\* a is before b in byte-wise lexicographic order: they agree up to a
\* position where a has ended or holds the smaller byte.
Precedes(a, b) ==
    \E i \in 1..Len(b) :
        /\ \A j \in 1..(i - 1) : j <= Len(a) /\ a[j] = b[j]
        /\ \/ i = Len(a) + 1
           \/ i <= Len(a) /\ Code[a[i]] < Code[b[i]]

EntryCalls(cs) == SelectSeq(cs, LAMBDA c : c[1] = "serialize_entry")
EndCalls(cs) == SelectSeq(cs, LAMBDA c : c[1] = "end")

\* The keys of the dictionary a serialize of m emits, in emission order.
EmittedKeys(m) ==
    LET es == EntryCalls(serialize(m, {}).calls)
    IN  [i \in 1..Len(es) |-> es[i][2]]

\* The map built by the add calls of h, from new().
RECURSIVE Build(_)
Build(h) ==
    IF h = <<>> THEN new
    ELSE add(Build(SubSeq(h, 1, Len(h) - 1)), h[Len(h)][1], h[Len(h)][2])

Without(h, i) == SubSeq(h, 1, i - 1) \o SubSeq(h, i + 1, Len(h))

\* The last add of each name in h: the final (name -> raw value) entries.
LastWrite(h) ==
    {h[i] : i \in {i \in 1..Len(h) : \A j \in (i + 1)..Len(h) : h[j][1] # h[i][1]}}

\* Every order in which the entries of S can be added, one add each.
RECURSIVE Orders(_)
Orders(S) ==
    IF S = {} THEN {<<>>}
    ELSE UNION {{<<e>> \o o : o \in Orders(S \ {e})} : e \in S}

Swapped(h, i, j) == [h EXCEPT ![i] = h[j], ![j] = h[i]]

\* C1: after any sequence of add calls, the keys of the dictionary that
\* serialize emits are in strictly ascending byte-wise lexicographic order
\* (so no name is emitted twice), and they are the names that were added.
C1_KeysStrictlyAscending ==
    LET ks == EmittedKeys(map)
    IN  /\ \A i, j \in 1..Len(ks) : i < j => Precedes(ks[i], ks[j])
        /\ {ks[i] : i \in 1..Len(ks)} = added

C1_Witness ==
    /\ Len(hist) = 4
    /\ <<hist[1][1], hist[2][1], hist[3][1], hist[4][1]>> = <<zoo, foo, zoo, fo>>
    /\ EmittedKeys(map) = <<fo, foo, zoo>>

\* C2: last write wins.  When name was added at call i and again at a later
\* call j, the map is the one the calls without call i build and serializes
\* as that one does; the map holds one entry for each added name, and its
\* value is the one of the last add of that name.
C2_LastWriteWins ==
    /\ \A i, j \in 1..Len(hist) :
          i < j /\ hist[i][1] = hist[j][1] =>
             /\ map = Build(Without(hist, i))
             /\ serialize(map, {}).ret = serialize(Build(Without(hist, i)), {}).ret
    /\ \A e \in LastWrite(hist) :
          /\ Cardinality({i \in 1..Len(map) : Key(map[i]) = e[1]}) = 1
          /\ Get(map, e[1]) = Into(e[2])

C2_Witness ==
    /\ Len(hist) = 3
    /\ hist[1] = <<foo, <<"i64", 42>>>>
    /\ hist[2][1] = boo
    /\ hist[3] = <<foo, <<"String", bar>>>>
    /\ Get(map, foo) = ArgValue_String(bar)

\* C3: the order of the add calls does not matter.  Adding the final
\* entries once each, in any order, or the same calls with two of them
\* exchanged (when that leaves the same final entries), builds a map equal
\* to this one, on which serialize makes the same calls and returns the
\* same bytes.
C3_OrderIndependent ==
    LET here == serialize(map, {})
    IN  /\ \A o \in Orders(LastWrite(hist)) :
              LET m == Build(o)
                  r == serialize(m, {})
              IN  m = map /\ r.calls = here.calls /\ r.ret = here.ret
        /\ \A i, j \in 1..Len(hist) :
              i < j /\ LastWrite(Swapped(hist, i, j)) = LastWrite(hist) =>
                 LET m == Build(Swapped(hist, i, j))
                     r == serialize(m, {})
                 IN  m = map /\ r.calls = here.calls /\ r.ret = here.ret

C3_Witness ==
    /\ Len(hist) = 4
    /\ <<hist[1][1], hist[2][1], hist[3][1], hist[4][1]>> = <<zoo, boo, foo, boo>>
    /\ hist[2][2] # hist[4][2]
    /\ map = Build(<<hist[4], hist[3], hist[1]>>)

\* C4: add is always possible, and an add of name changes no other entry:
\* every other name is stored, or absent, after the call as before it, and
\* no stored name disappears.
C4_AddFrame ==
    /\ [](\A name \in Names, raw \in RawInputs : ENABLED AddCall(name, raw))
    /\ [][op' = "add" =>
            /\ \A n \in Names \ {arg'[1]} : Get(map', n) = Get(map, n)
            /\ KeySet(map) \subseteq KeySet(map')
            /\ Get(map', arg'[1]) # Absent]_vars

C4_Witness ==
    /\ op = "add"
    /\ arg[1] = foo
    /\ KeySet(map) = {boo, foo, zoo}
    /\ Get(map, boo) = ArgValue_Json(JsonDict)
    /\ Get(map, zoo) = ArgValue_Int(-42)

\* C5: serialize fails exactly when a call it makes on the downstream
\* serializer fails, and then it returns the error of the first such call;
\* when none fails it returns Ok, whatever the map holds.
C5_ErrorPropagated ==
    op = "serialize" =>
        LET hit == plan \cap (0..(Len(map) + 1))
        IN  IF hit = {} THEN ret[1] = "Ok"
            ELSE ret = Err(SinkError(Min(hit)))

C5_Witness ==
    /\ op = "serialize"
    /\ Len(map) = 3
    /\ plan = {2, 4}
    /\ ret = Err(SinkError(2))

\* The dictionary of the entries S: a name as a length-prefixed string, then
\* its value by variant, the names in ascending order.
RECURSIVE RefEntries(_)
RefEntries(S) ==
    IF S = {} THEN <<>>
    ELSE LET e == CHOOSE e \in S : \A o \in S \ {e} : Precedes(Key(e), Key(o))
             v == Value(e)
         IN  BStr(Key(e))
             \o (CASE Tag(v) = "Int" -> <<"i">> \o Itoa(Payload(v)) \o <<"e">>
                   [] Tag(v) = "String" -> Itoa(Len(Payload(v))) \o <<":">> \o Payload(v)
                   [] Tag(v) = "Json" -> BJson(Payload(v)))
             \o RefEntries(S \ {e})

\* test_args_ser
TestArgs ==
    << <<boo, ArgValue_Int(42)>>, <<foo, ArgValue_String(bar)>>, <<zoo, ArgValue_Int(-42)>> >>

TestArgsBytes ==
    <<"d","3",":","b","o","o","i","4","2","e","3",":","f","o","o","3",":","b","a","r",
      "3",":","z","o","o","i","-","4","2","e","e">>

\* C6: a successful serialize makes one serialize_map call, one
\* serialize_entry call per entry in key order and one end call, and returns
\* the dictionary start, each name as a length-prefixed string followed by
\* its value encoded by variant, and the terminator: the bytes of
\* test_args_ser for its arguments, "de" for the empty map.
C6_Encoding ==
    op = "serialize" /\ ret[1] = "Ok" =>
        /\ Len(calls) = Len(map) + 2
        /\ calls[1][1] = "serialize_map"
        /\ calls[Len(calls)] = <<"end">>
        /\ \A i \in 1..Len(map) :
              /\ calls[i + 1][1] = "serialize_entry"
              /\ calls[i + 1][2] = Key(map[i])
        /\ ret[2] = <<"d">> \o RefEntries({map[i] : i \in 1..Len(map)}) \o <<"e">>
        /\ (map = TestArgs => ret[2] = TestArgsBytes)
        /\ (map = <<>> => ret[2] = <<"d", "e">>)

C6_Witness ==
    /\ op = "serialize"
    /\ map = TestArgs
    /\ ret = Ok(TestArgsBytes)

\* test_args_ser_json
TestJsonArgs == << <<boo, ArgValue_Json(JsonDict)>>, <<foo, ArgValue_Json(JsonList)>> >>

TestJsonArgsBytes ==
    <<"d","3",":","b","o","o","d","4",":","k","e","y","1","3",":","b","a","z",
      "4",":","k","e","y","2","l","5",":","L","o","r","e","m","5",":","i","p","s","u","m",
      "d","5",":","d","o","l","o","r","l","3",":","s","i","t","4",":","a","m","e","t",
      "e","e","e","e","3",":","f","o","o","l","i","4","2","e","i","-","4","2","e",
      "3",":","b","a","r","e","e">>

\* C7: a Json value reaches the downstream serializer as the tree that was
\* added, at every depth: its arrays with their elements in order and its
\* objects with their members in their own order; only the argument names
\* are ordered by the map.  The arguments of test_args_ser_json give its
\* bytes.
C7_JsonAsIs ==
    op = "serialize" =>
        /\ \A i \in 1..Len(calls) :
              calls[i][1] = "serialize_entry" /\ Tag(Get(map, calls[i][2])) = "Json"
                 => calls[i][3] = <<"json", Payload(Get(map, calls[i][2]))>>
        /\ (ret[1] = "Ok" /\ map = TestJsonArgs => ret[2] = TestJsonArgsBytes)

C7_Witness ==
    /\ op = "serialize"
    /\ map = TestJsonArgs
    /\ ret = Ok(TestJsonArgsBytes)

\* The text a &str views.
TextOf(slice) == [i \in 1..(slice[3] - slice[2]) |-> slice[1][slice[2] + i]]

\* C8: add stores the lift of what it is given: an i64 n as Int(n), a
\* String and a &str as String of their text (so equal when the text is),
\* a JSON value j as Json(j), an ArgValue as itself.
C8_LiftsOnlyTag ==
    op = "add" =>
        LET raw == arg[2]
            v == Get(map, arg[1])
        IN  /\ Tag(raw) = "i64" => v = <<"Int", Payload(raw)>>
            /\ Tag(raw) = "String" => v = <<"String", Payload(raw)>>
            /\ Tag(raw) = "&str" =>
                  /\ v = <<"String", TextOf(Payload(raw))>>
                  /\ \A s \in RawInputs :
                        Tag(s) = "String" /\ Payload(s) = TextOf(Payload(raw))
                           => v = Get(add(new, arg[1], s), arg[1])
            /\ Tag(raw) = "JsonValue" => v = <<"Json", Payload(raw)>>
            /\ Tag(raw) = "ArgValue" => v = Payload(raw)

C8_Witness ==
    /\ op = "add"
    /\ arg = <<foo, <<"&str", <<foobar, 3, 6>>>>>>
    /\ Get(map, foo) = <<"String", bar>>

\* C9: serialize leaves the map as it was, whether it succeeds or fails.
C9_SerializeReadOnly == [][op' = "serialize" => map' = map]_vars

C9_Witness ==
    /\ op = "serialize"
    /\ ret[1] = "Err"
    /\ Len(calls) = 3
    /\ Len(map) = 3

\* C10: serialize stops at the first failing call.  It announces the number
\* of entries, which is the number of distinct names added; when call k is
\* the first to fail, the calls made are calls 0..k and no end call is made
\* unless k is the end call; on success every entry was written.
C10_StopsAtFirstFailure ==
    op = "serialize" =>
        LET n == Len(map)
            hit == plan \cap (0..(n + 1))
            last == IF hit = {} THEN n + 1 ELSE Min(hit)
        IN  /\ calls[1] = <<"serialize_map", n>>
            /\ n = Cardinality(added)
            /\ Len(calls) = last + 1
            /\ Len(EntryCalls(calls)) = IF last > n THEN n ELSE last
            /\ Len(EndCalls(calls)) = IF last > n THEN 1 ELSE 0
            /\ \A k \in 1..Len(EntryCalls(calls)) : calls[k + 1][2] = Key(map[k])
            /\ (ret[1] = "Ok" => Len(EntryCalls(calls)) = calls[1][2])

C10_Witness ==
    /\ op = "serialize"
    /\ Len(map) = 3
    /\ plan = {2, 3}
    /\ Len(calls) = 3
    /\ ret = Err(SinkError(2))

====
